---- MODULE Spec2Model ----
(***************************************************************************)
(* BurrowSpace P2P rendezvous / fallback-relay server                      *)
(* (src/python_server/server.py).                                          *)
(*                                                                         *)
(* The four in-memory registries are Python dicts keyed by uuid4 strings.  *)
(* No entry is ever deleted, and a dict iterates in insertion order, so    *)
(* each registry is a sequence: the id of an entry is its index, a fresh   *)
(* uuid is Len + 1, and "for ... in d.items()" visits 1, 2, ... in order.  *)
(* An entry is a function from key names to values; a key the code has not *)
(* written yet is absent from its DOMAIN ('socket_id' in peer_data).       *)
(* Fields that are written once and never read by the server (ip,          *)
(* connected_at, created_at) are left out.                                 *)
(*                                                                         *)
(* Request handlers and Socket.IO handlers are one step each: the eventlet *)
(* server of __main__ runs them on one thread.  The fallback upload is two *)
(* steps, before and from file.save, so that another handler may run while *)
(* the payload is written (as under a threaded WSGI server); running the   *)
(* two steps back to back is the eventlet behaviour.  The cleanup task is  *)
(* a real thread (threading.Thread) that takes no lock: each of its reads  *)
(* and writes is a step of its own.                                        *)
(*                                                                         *)
(* The clock is observed at multiples of the timeout, so that a peer is    *)
(* seen exactly at the timeout (not expired) and beyond it (expired).      *)
(* Each specification below explores one part of the server with its own   *)
(* bounds and inputs; the actions themselves carry no bound.               *)
(***************************************************************************)
EXTENDS Integers, Sequences, FiniteSets, TLC

VARIABLES
    connected_peers,    \* server.py:43
    transfer_requests,  \* server.py:44
    active_transfers,   \* server.py:45
    relay_sessions,     \* server.py:46
    files,              \* the paths that exist under UPLOAD_FOLDER
    now,                \* datetime.now(), in seconds
    cleanup,            \* the cleanup thread: its position and locals
    upload,             \* the upload request between its two status writes
    emitted,            \* what the last step handed to sio.emit
    response            \* what the last step returned to its caller

vars == <<connected_peers, transfer_requests, active_transfers, relay_sessions,
          files, now, cleanup, upload, emitted, response>>

registries == <<connected_peers, transfer_requests, active_transfers, relay_sessions>>

----------------------------------------------------------------------------
(* Bounds of the model *)

MaxTicks == 2
LivenessPeers == 1
RelayPeers == 1
MaxSessions == 1
MaxRequests == 1
MaxTransfers == 1
ChannelPeers == 1
ChannelSessions == 1
ChannelRequests == 1
LossPeers == 2
ApprovalRequests == 1
ApprovalTransfers == 2
InputPeers == 1
NotifyPeers == 2
LineageRequests == 2
LineageTransfers == 1

(* Program constants *)

Timeout == 60

(* Inputs *)

Users == {"u1", "u2"}
Sids == {"s1", "s2"}
Uploads == {"a.bin", ".."}
MoreUploads == {"a.bin", "b.bin"}
Signals == {"offer"}
Chunks == {"bytes"}
ALL == "*"

(* The ids a caller may name: every id in the registry and one unknown id. *)
Ids(reg) == 1..(Len(reg) + 1)

----------------------------------------------------------------------------
(* Python dict helpers *)

Has(d, k) == k \in DOMAIN d

Put(d, k, v) == [x \in (DOMAIN d) \cup {k} |-> IF x = k THEN v ELSE d[x]]

Known(reg, id) == id \in DOMAIN reg

----------------------------------------------------------------------------
(* The cleanup thread in time.sleep: its locals are dead until the next pass. *)
Asleep == [pc |-> "sleep", now |-> 0, n |-> 0, i |-> 0]

(* A step that answers no caller. *)
NoResponse == [op |-> "none"]

Init ==
    /\ connected_peers = <<>>
    /\ transfer_requests = <<>>
    /\ active_transfers = <<>>
    /\ relay_sessions = <<>>
    /\ files = {}
    /\ now = 0
    /\ cleanup = Asleep
    /\ upload = [pc |-> "idle"]
    /\ emitted = {}
    /\ response = NoResponse

(* The wall clock advances between steps. *)
Tick ==
    /\ now + Timeout <= MaxTicks * Timeout
    /\ now' = now + Timeout
    /\ emitted' = {}
    /\ response' = NoResponse
    /\ UNCHANGED <<registries, files, cleanup, upload>>

----------------------------------------------------------------------------
(* Peer registry *)

NoData == [x \in {} |-> 0]
ConnectData == {NoData} \cup {[user_id |-> u] : u \in Users}

(* Mutant: a missing user_id is read with data.get and the peer is stored. *)
connect_peer_without_user(data) ==
    /\ connected_peers' = Append(connected_peers,
            [user_id |-> IF Has(data, "user_id") THEN data.user_id ELSE "None",
             status |-> "online", last_seen |-> now])
    /\ response' = [op |-> "connect_peer", code |-> 200,
                    peer_id |-> Len(connected_peers) + 1]
    /\ emitted' = {}
    /\ UNCHANGED <<transfer_requests, active_transfers, relay_sessions,
                   files, now, cleanup, upload>>

connect_peer(data) ==
    IF ~Has(data, "user_id")
    THEN /\ response' = [op |-> "connect_peer", code |-> 400]
         /\ emitted' = {}
         /\ UNCHANGED <<registries, files, now, cleanup, upload>>
    ELSE /\ connected_peers' = Append(connected_peers,
                [user_id |-> data.user_id, status |-> "online", last_seen |-> now])
         /\ response' = [op |-> "connect_peer", code |-> 200,
                         peer_id |-> Len(connected_peers) + 1]
         /\ emitted' = {}
         /\ UNCHANGED <<transfer_requests, active_transfers, relay_sessions,
                        files, now, cleanup, upload>>

heartbeat(peer_id) ==
    IF ~Known(connected_peers, peer_id)
    THEN /\ response' = [op |-> "heartbeat", code |-> 404]
         /\ emitted' = {}
         /\ UNCHANGED <<registries, files, now, cleanup, upload>>
    ELSE /\ connected_peers' = [connected_peers EXCEPT
                ![peer_id].last_seen = now, ![peer_id].status = "online"]
         /\ response' = [op |-> "heartbeat", code |-> 200]
         /\ emitted' = {}
         /\ UNCHANGED <<transfer_requests, active_transfers, relay_sessions,
                        files, now, cleanup, upload>>

(* Mutant: the first channel of a peer is kept (dict.setdefault). *)
register_socket_keep_first(sid, peer_id) ==
    IF ~Known(connected_peers, peer_id)
    THEN /\ response' = [op |-> "register_socket", status |-> "error"]
         /\ emitted' = {}
         /\ UNCHANGED <<registries, files, now, cleanup, upload>>
    ELSE /\ connected_peers' = [connected_peers EXCEPT
                ![peer_id] = Put(IF Has(@, "socket_id") THEN @ ELSE Put(@, "socket_id", sid),
                                 "last_seen", now)]
         /\ response' = [op |-> "register_socket", status |-> "success"]
         /\ emitted' = {}
         /\ UNCHANGED <<transfer_requests, active_transfers, relay_sessions,
                        files, now, cleanup, upload>>

register_socket(sid, peer_id) ==
    IF ~Known(connected_peers, peer_id)
    THEN /\ response' = [op |-> "register_socket", status |-> "error"]
         /\ emitted' = {}
         /\ UNCHANGED <<registries, files, now, cleanup, upload>>
    ELSE /\ connected_peers' = [connected_peers EXCEPT
                ![peer_id] = Put(Put(@, "socket_id", sid), "last_seen", now)]
         /\ response' = [op |-> "register_socket", status |-> "success"]
         /\ emitted' = {}
         /\ UNCHANGED <<transfer_requests, active_transfers, relay_sessions,
                        files, now, cleanup, upload>>

(* Mutant: every peer that holds a channel, whichever it is. *)
HeldByAny(sid) ==
    {p \in DOMAIN connected_peers : Has(connected_peers[p], "socket_id")}

(* Socket.IO disconnect event: every peer whose socket_id is sid. *)
HeldBy(sid) ==
    {p \in DOMAIN connected_peers :
        Has(connected_peers[p], "socket_id") /\ connected_peers[p].socket_id = sid}

disconnect(sid) ==
    /\ connected_peers' = [p \in DOMAIN connected_peers |->
            IF p \in HeldBy(sid)
            THEN Put(Put(connected_peers[p], "status", "offline"), "disconnected_at", now)
            ELSE connected_peers[p]]
    /\ emitted' = {[event |-> "peer_disconnected", room |-> ALL, peer_id |-> p] :
                        p \in HeldBy(sid)}
    /\ response' = [op |-> "disconnect"]
    /\ UNCHANGED <<transfer_requests, active_transfers, relay_sessions,
                   files, now, cleanup, upload>>

disconnect_peer(peer_id) ==
    IF ~Known(connected_peers, peer_id)
    THEN /\ response' = [op |-> "disconnect_peer", code |-> 404]
         /\ emitted' = {}
         /\ UNCHANGED <<registries, files, now, cleanup, upload>>
    ELSE /\ connected_peers' = [connected_peers EXCEPT
                ![peer_id] = Put(Put(@, "status", "offline"), "disconnected_at", now)]
         /\ response' = [op |-> "disconnect_peer", code |-> 200]
         /\ emitted' = {}
         /\ UNCHANGED <<transfer_requests, active_transfers, relay_sessions,
                        files, now, cleanup, upload>>

----------------------------------------------------------------------------
(* Liveness monitor: the cleanup thread *)

(* Mutant: the subtraction the wrong way round. *)
ExpiredReversed(t, last_seen) == last_seen - t > Timeout

Expired(t, last_seen) == t - last_seen > Timeout

(* After the body of the for loop for item i: the next item, or sleep. *)
CleanupAdvance ==
    IF cleanup.i < cleanup.n
    THEN [cleanup EXCEPT !.pc = "status", !.i = cleanup.i + 1]
    ELSE Asleep

(* now = datetime.now(); list(connected_peers.items()) *)
cleanup_begin ==
    /\ cleanup.pc = "sleep"
    /\ cleanup' = IF Len(connected_peers) = 0
                  THEN Asleep
                  ELSE [pc |-> "status", now |-> now,
                        n |-> Len(connected_peers), i |-> 1]
    /\ emitted' = {}
    /\ response' = NoResponse
    /\ UNCHANGED <<registries, files, now, upload>>

(* if peer_data['status'] == 'online' *)
cleanup_read_status ==
    /\ cleanup.pc = "status"
    /\ cleanup' = IF connected_peers[cleanup.i].status = "online"
                  THEN [cleanup EXCEPT !.pc = "last_seen"]
                  ELSE CleanupAdvance
    /\ emitted' = {}
    /\ response' = NoResponse
    /\ UNCHANGED <<registries, files, now, upload>>

(* last_seen = ...; if (now - last_seen).total_seconds() > 60 *)
cleanup_read_last_seen ==
    /\ cleanup.pc = "last_seen"
    /\ cleanup' = IF Expired(cleanup.now, connected_peers[cleanup.i].last_seen)
                  THEN [cleanup EXCEPT !.pc = "write"]
                  ELSE CleanupAdvance
    /\ emitted' = {}
    /\ response' = NoResponse
    /\ UNCHANGED <<registries, files, now, upload>>

(* connected_peers[peer_id]['status'] = 'offline' *)
cleanup_write ==
    /\ cleanup.pc = "write"
    /\ connected_peers' = [connected_peers EXCEPT ![cleanup.i].status = "offline"]
    /\ cleanup' = CleanupAdvance
    /\ emitted' = {}
    /\ response' = NoResponse
    /\ UNCHANGED <<transfer_requests, active_transfers, relay_sessions,
                   files, now, upload>>

cleanup_inactive_peers ==
    \/ cleanup_begin
    \/ cleanup_read_status
    \/ cleanup_read_last_seen
    \/ cleanup_write

----------------------------------------------------------------------------
(* Signal router and relay session manager *)

Reachable(peer_id) ==
    Known(connected_peers, peer_id) /\ Has(connected_peers[peer_id], "socket_id")

(* initiate_relay: the new session, and the notice to the sender's channel. *)
RelayOpened(sender_peer_id, receiver_peer_id) ==
    Append(relay_sessions,
           [sender_id |-> sender_peer_id, receiver_id |-> receiver_peer_id,
            status |-> "initiated"])

RelayNotice(sender_peer_id, receiver_peer_id) ==
    IF Reachable(sender_peer_id)
    THEN {[event |-> "relay_initiated", room |-> connected_peers[sender_peer_id].socket_id,
           session_id |-> Len(relay_sessions) + 1, target_peer_id |-> receiver_peer_id]}
    ELSE {}

peer_signal(sender_peer_id, target_peer_id, signal) ==
    IF Reachable(target_peer_id)
    THEN /\ emitted' = {[event |-> "peer_signal",
                         room |-> connected_peers[target_peer_id].socket_id,
                         sender_peer_id |-> sender_peer_id, signal |-> signal]}
         /\ response' = [op |-> "peer_signal", status |-> "success"]
         /\ UNCHANGED <<registries, files, now, cleanup, upload>>
    ELSE /\ relay_sessions' = RelayOpened(sender_peer_id, target_peer_id)
         /\ emitted' = RelayNotice(sender_peer_id, target_peer_id)
         /\ response' = [op |-> "peer_signal", status |-> "relay"]
         /\ UNCHANGED <<connected_peers, transfer_requests, active_transfers,
                        files, now, cleanup, upload>>

ChunkData(sessions) ==
    {[session_id |-> s, chunk |-> c, index |-> i, total |-> t] :
        s \in sessions, c \in Chunks, i \in 0..1, t \in 1..2}
    \cup {[session_id |-> s, chunk |-> c, index |-> 0] : s \in sessions, c \in Chunks}

(* Mutant: the last chunk taken to be index = total. *)
LastChunkOffByOne(data) == data.index = data.total

(* if chunk_index == total_chunks - 1 *)
LastChunk(data) == data.index = data.total - 1

(* relay_chunk from line 175 on: the session is known.                      *)
(* data.get('total') is None when the key is missing: None - 1 raises.     *)
relay_chunk_known(data) ==
    LET receiver_id == relay_sessions[data.session_id].receiver_id IN
    IF Reachable(receiver_id)
    THEN /\ emitted' = {[event |-> "relay_chunk",
                         room |-> connected_peers[receiver_id].socket_id,
                         session_id |-> data.session_id, chunk |-> data.chunk,
                         index |-> data.index,
                         total |-> IF Has(data, "total") THEN data.total ELSE -1]}
         /\ IF ~Has(data, "total")
            THEN /\ response' = [op |-> "relay_chunk", status |-> "error"]
                 /\ UNCHANGED relay_sessions
            ELSE /\ response' = [op |-> "relay_chunk", status |-> "success"]
                 /\ relay_sessions' =
                       IF LastChunk(data)
                       THEN [relay_sessions EXCEPT ![data.session_id].status = "completed"]
                       ELSE relay_sessions
         /\ UNCHANGED <<connected_peers, transfer_requests, active_transfers,
                        files, now, cleanup, upload>>
    ELSE /\ emitted' = {}
         /\ response' = [op |-> "relay_chunk", status |-> "queued"]
         /\ UNCHANGED <<registries, files, now, cleanup, upload>>

(* Mutant: an unknown session is taken for one whose receiver is away. *)
relay_chunk_unknown_queued(data) ==
    IF ~Known(relay_sessions, data.session_id)
    THEN /\ emitted' = {}
         /\ response' = [op |-> "relay_chunk", status |-> "queued"]
         /\ UNCHANGED <<registries, files, now, cleanup, upload>>
    ELSE relay_chunk_known(data)

relay_chunk(data) ==
    IF ~Known(relay_sessions, data.session_id)
    THEN /\ emitted' = {}
         /\ response' = [op |-> "relay_chunk", status |-> "error"]
         /\ UNCHANGED <<registries, files, now, cleanup, upload>>
    ELSE relay_chunk_known(data)

----------------------------------------------------------------------------
(* Transfer workflow *)

(* The online peers of a user, in registry order. *)
OnlinePeers(users) ==
    {p \in DOMAIN connected_peers :
        connected_peers[p].user_id \in users /\ connected_peers[p].status = "online"}

Min(S) == CHOOSE x \in S : \A y \in S : x <= y

(* for ...: if user_id == u and status == 'online': ...; break *)
FirstOnline(user) == IF OnlinePeers({user}) = {} THEN {} ELSE {Min(OnlinePeers({user}))}

WithSocket(peers) == {p \in peers : Has(connected_peers[p], "socket_id")}

RequestData ==
    { [sender_id |-> "u1", receiver_id |-> "u2", filename |-> "f.txt"],
      [sender_id |-> "u1", receiver_id |-> "u2"],
      [sender_id |-> "u1", filename |-> "f.txt"],
      [receiver_id |-> "u2", filename |-> "f.txt"],
      NoData }

request_file_transfer(data) ==
    IF ~(Has(data, "sender_id") /\ Has(data, "receiver_id") /\ Has(data, "filename"))
    THEN /\ response' = [op |-> "request_file_transfer", code |-> 400]
         /\ emitted' = {}
         /\ UNCHANGED <<registries, files, now, cleanup, upload>>
    ELSE LET request_id == Len(transfer_requests) + 1 IN
         /\ transfer_requests' = Append(transfer_requests,
                [sender_id |-> data.sender_id, receiver_id |-> data.receiver_id,
                 filename |-> data.filename, status |-> "pending"])
         /\ emitted' = {[event |-> "transfer_request", room |-> connected_peers[p].socket_id,
                         request_id |-> request_id, sender_id |-> data.sender_id,
                         filename |-> data.filename] :
                            p \in WithSocket(FirstOnline(data.receiver_id))}
         /\ response' = [op |-> "request_file_transfer", code |-> 200,
                         request_id |-> request_id,
                         receiver_online |-> FirstOnline(data.receiver_id) # {}]
         /\ UNCHANGED <<connected_peers, active_transfers, relay_sessions,
                        files, now, cleanup, upload>>

(* Mutant: the request records the transfer of its latest approval. *)
approve_known_stamped(request_id) ==
         LET transfer_id == Len(active_transfers) + 1
             req == transfer_requests[request_id] IN
         /\ transfer_requests' = [transfer_requests EXCEPT ![request_id] =
                Put(Put(@, "status", "approved"), "approved_by", transfer_id)]
         /\ active_transfers' = Append(active_transfers,
                [request_id |-> request_id, status |-> "ready", progress |-> 0,
                 sender_id |-> req.sender_id, receiver_id |-> req.receiver_id,
                 filename |-> req.filename, transfer_mode |-> "p2p"])
         /\ emitted' = {[event |-> "transfer_approved", room |-> connected_peers[p].socket_id,
                         request_id |-> request_id, transfer_id |-> transfer_id] :
                            p \in WithSocket(FirstOnline(req.sender_id))}
         /\ response' = [op |-> "approve_transfer", code |-> 200,
                         transfer_id |-> transfer_id,
                         sender_online |-> FirstOnline(req.sender_id) # {}]
         /\ UNCHANGED <<connected_peers, relay_sessions, files, now, cleanup, upload>>

(* Mutant: a request that already has a transfer is answered with that    *)
(* transfer and no new one is created.                                     *)
approve_known_idempotent(request_id) ==
    LET earlier == {t \in DOMAIN active_transfers :
                        active_transfers[t].request_id = request_id} IN
    IF earlier # {}
    THEN /\ response' = [op |-> "approve_transfer", code |-> 200,
                         transfer_id |-> Min(earlier),
                         sender_online |-> FirstOnline(transfer_requests[request_id].sender_id) # {}]
         /\ emitted' = {}
         /\ UNCHANGED <<registries, files, now, cleanup, upload>>
    ELSE
         LET transfer_id == Len(active_transfers) + 1
             req == transfer_requests[request_id] IN
         /\ transfer_requests' = [transfer_requests EXCEPT ![request_id].status = "approved"]
         /\ active_transfers' = Append(active_transfers,
                [request_id |-> request_id, status |-> "ready", progress |-> 0,
                 sender_id |-> req.sender_id, receiver_id |-> req.receiver_id,
                 filename |-> req.filename, transfer_mode |-> "p2p"])
         /\ emitted' = {[event |-> "transfer_approved", room |-> connected_peers[p].socket_id,
                         request_id |-> request_id, transfer_id |-> transfer_id] :
                            p \in WithSocket(FirstOnline(req.sender_id))}
         /\ response' = [op |-> "approve_transfer", code |-> 200,
                         transfer_id |-> transfer_id,
                         sender_online |-> FirstOnline(req.sender_id) # {}]
         /\ UNCHANGED <<connected_peers, relay_sessions, files, now, cleanup, upload>>

(* Mutant: the transfer is filled in from the latest request. *)
approve_known_latest(request_id) ==
         LET transfer_id == Len(active_transfers) + 1
             req == transfer_requests[Len(transfer_requests)] IN
         /\ transfer_requests' = [transfer_requests EXCEPT ![request_id].status = "approved"]
         /\ active_transfers' = Append(active_transfers,
                [request_id |-> request_id, status |-> "ready", progress |-> 0,
                 sender_id |-> req.sender_id, receiver_id |-> req.receiver_id,
                 filename |-> req.filename, transfer_mode |-> "p2p"])
         /\ emitted' = {[event |-> "transfer_approved", room |-> connected_peers[p].socket_id,
                         request_id |-> request_id, transfer_id |-> transfer_id] :
                            p \in WithSocket(FirstOnline(req.sender_id))}
         /\ response' = [op |-> "approve_transfer", code |-> 200,
                         transfer_id |-> transfer_id,
                         sender_online |-> FirstOnline(req.sender_id) # {}]
         /\ UNCHANGED <<connected_peers, relay_sessions, files, now, cleanup, upload>>

(* approve_transfer from line 330 on: the request is known. *)
approve_known(request_id) ==
         LET transfer_id == Len(active_transfers) + 1
             req == transfer_requests[request_id] IN
         /\ transfer_requests' = [transfer_requests EXCEPT ![request_id].status = "approved"]
         /\ active_transfers' = Append(active_transfers,
                [request_id |-> request_id, status |-> "ready", progress |-> 0,
                 sender_id |-> req.sender_id, receiver_id |-> req.receiver_id,
                 filename |-> req.filename, transfer_mode |-> "p2p"])
         /\ emitted' = {[event |-> "transfer_approved", room |-> connected_peers[p].socket_id,
                         request_id |-> request_id, transfer_id |-> transfer_id] :
                            p \in WithSocket(FirstOnline(req.sender_id))}
         /\ response' = [op |-> "approve_transfer", code |-> 200,
                         transfer_id |-> transfer_id,
                         sender_online |-> FirstOnline(req.sender_id) # {}]
         /\ UNCHANGED <<connected_peers, relay_sessions, files, now, cleanup, upload>>

(* Mutant: no lookup of the request before the transfer is created. *)
approve_unchecked(request_id) ==
    IF ~Known(transfer_requests, request_id)
    THEN /\ active_transfers' = Append(active_transfers,
                [request_id |-> request_id, status |-> "ready", progress |-> 0,
                 sender_id |-> "None", receiver_id |-> "None", filename |-> "None",
                 transfer_mode |-> "p2p"])
         /\ response' = [op |-> "approve_transfer", code |-> 200,
                         transfer_id |-> Len(active_transfers) + 1,
                         sender_online |-> FALSE]
         /\ emitted' = {}
         /\ UNCHANGED <<connected_peers, transfer_requests, relay_sessions,
                        files, now, cleanup, upload>>
    ELSE approve_known(request_id)

approve_transfer(request_id) ==
    IF ~Known(transfer_requests, request_id)
    THEN /\ response' = [op |-> "approve_transfer", code |-> 404]
         /\ emitted' = {}
         /\ UNCHANGED <<registries, files, now, cleanup, upload>>
    ELSE approve_known(request_id)

(* What the request carries as its 'file' part: none, one with an empty     *)
(* filename, or a named file.                                              *)
NoFile == "<no file part>"
FileParts(names) == {NoFile, ""} \cup names

(* werkzeug's secure_filename: a name made of dots only has nothing left. *)
secure_filename(name) == IF name = ".." THEN "" ELSE name

(* os.path.join(UPLOAD_FOLDER, transfer_id, filename) *)
FilePath(transfer_id, filename) == <<transfer_id, filename>>

Idle == [pc |-> "idle"]

(* upload_file up to file.save: lines 376-388 *)
upload_begin(transfer_id, file) ==
    /\ upload = Idle
    /\ IF ~Known(active_transfers, transfer_id)
       THEN /\ response' = [op |-> "upload_file", code |-> 404]
            /\ emitted' = {}
            /\ UNCHANGED <<registries, files, now, cleanup, upload>>
       ELSE IF file = NoFile \/ file = ""
       THEN /\ response' = [op |-> "upload_file", code |-> 400]
            /\ emitted' = {}
            /\ UNCHANGED <<registries, files, now, cleanup, upload>>
       ELSE /\ active_transfers' = [active_transfers EXCEPT
                    ![transfer_id].status = "transferring",
                    ![transfer_id].transfer_mode = "server_relay"]
            /\ upload' = [pc |-> "save", transfer_id |-> transfer_id, file |-> file]
            /\ emitted' = {}
            /\ response' = NoResponse
            /\ UNCHANGED <<connected_peers, transfer_requests, relay_sessions,
                           files, now, cleanup>>

(* upload_file from file.save on: lines 390-425.  Saving to the directory  *)
(* itself (an empty secured name) raises, and the handler answers 500.     *)
upload_save ==
    /\ upload.pc = "save"
    /\ LET transfer_id == upload.transfer_id
           filename == secure_filename(upload.file)
           file_path == FilePath(transfer_id, filename) IN
       IF filename = ""
       THEN /\ response' = [op |-> "upload_file", code |-> 500]
            /\ emitted' = {}
            /\ upload' = Idle
            /\ UNCHANGED <<registries, files, now, cleanup>>
       ELSE /\ files' = files \cup {file_path}
            /\ active_transfers' = [active_transfers EXCEPT ![transfer_id] =
                    Put(Put(Put(Put(@, "status", "completed"), "progress", 100),
                            "file_path", file_path), "completed_at", now)]
            /\ emitted' = {[event |-> "transfer_completed",
                            room |-> connected_peers[p].socket_id,
                            transfer_id |-> transfer_id, filename |-> filename,
                            transfer_mode |-> "server_relay"] :
                    p \in WithSocket(FirstOnline(active_transfers[transfer_id].receiver_id))}
            /\ response' = [op |-> "upload_file", code |-> 200,
                            transfer_id |-> transfer_id, filename |-> filename]
            /\ upload' = Idle
            /\ UNCHANGED <<connected_peers, transfer_requests, relay_sessions,
                           now, cleanup>>

upload_file(names) ==
    \/ \E t \in Ids(active_transfers), file \in FileParts(names) : upload_begin(t, file)
    \/ upload_save

StatusData ==
    { [status |-> "transferring", progress |-> 50],
      [status |-> "completed", progress |-> 100],
      [status |-> "ready", progress |-> 0],
      [status |-> "paused", progress |-> 250],
      [status |-> "completed"],
      [progress |-> 100],
      NoData }

(* Mutant: completed_at is not stamped on completion. *)
update_transfer_status_unstamped(transfer_id, data) ==
    IF ~(Has(data, "status") /\ Has(data, "progress"))
    THEN /\ response' = [op |-> "update_transfer_status", code |-> 400]
         /\ emitted' = {}
         /\ UNCHANGED <<registries, files, now, cleanup, upload>>
    ELSE IF ~Known(active_transfers, transfer_id)
    THEN /\ response' = [op |-> "update_transfer_status", code |-> 404]
         /\ emitted' = {}
         /\ UNCHANGED <<registries, files, now, cleanup, upload>>
    ELSE LET t == active_transfers[transfer_id]
             written == Put(Put(t, "status", data.status), "progress", data.progress) IN
         /\ active_transfers' = [active_transfers EXCEPT ![transfer_id] = written]
         /\ emitted' = IF data.status = "completed"
                       THEN {[event |-> "transfer_completed",
                              room |-> connected_peers[p].socket_id,
                              transfer_id |-> transfer_id, transfer_mode |-> "p2p"] :
                                p \in WithSocket(OnlinePeers({t.sender_id, t.receiver_id}))}
                       ELSE {}
         /\ response' = [op |-> "update_transfer_status", code |-> 200]
         /\ UNCHANGED <<connected_peers, transfer_requests, relay_sessions,
                        files, now, cleanup, upload>>

update_transfer_status(transfer_id, data) ==
    IF ~(Has(data, "status") /\ Has(data, "progress"))
    THEN /\ response' = [op |-> "update_transfer_status", code |-> 400]
         /\ emitted' = {}
         /\ UNCHANGED <<registries, files, now, cleanup, upload>>
    ELSE IF ~Known(active_transfers, transfer_id)
    THEN /\ response' = [op |-> "update_transfer_status", code |-> 404]
         /\ emitted' = {}
         /\ UNCHANGED <<registries, files, now, cleanup, upload>>
    ELSE LET t == active_transfers[transfer_id]
             written == Put(Put(t, "status", data.status), "progress", data.progress) IN
         /\ active_transfers' = [active_transfers EXCEPT ![transfer_id] =
                IF data.status = "completed"
                THEN Put(written, "completed_at", now)
                ELSE written]
         /\ emitted' = IF data.status = "completed"
                       THEN {[event |-> "transfer_completed",
                              room |-> connected_peers[p].socket_id,
                              transfer_id |-> transfer_id, transfer_mode |-> "p2p"] :
                                p \in WithSocket(OnlinePeers({t.sender_id, t.receiver_id}))}
                       ELSE {}
         /\ response' = [op |-> "update_transfer_status", code |-> 200]
         /\ UNCHANGED <<connected_peers, transfer_requests, relay_sessions,
                        files, now, cleanup, upload>>

cancel_transfer(transfer_id) ==
    IF ~Known(active_transfers, transfer_id)
    THEN /\ response' = [op |-> "cancel_transfer", code |-> 404]
         /\ emitted' = {}
         /\ UNCHANGED <<registries, files, now, cleanup, upload>>
    ELSE LET t == active_transfers[transfer_id] IN
         /\ active_transfers' = [active_transfers EXCEPT ![transfer_id].status = "cancelled"]
         /\ files' = IF t.transfer_mode = "server_relay" /\ Has(t, "file_path")
                     THEN files \ {t.file_path}
                     ELSE files
         /\ emitted' = {[event |-> "transfer_cancelled",
                         room |-> connected_peers[p].socket_id,
                         transfer_id |-> transfer_id] :
                            p \in WithSocket(OnlinePeers({t.sender_id, t.receiver_id}))}
         /\ response' = [op |-> "cancel_transfer", code |-> 200,
                         transfer_id |-> transfer_id]
         /\ UNCHANGED <<connected_peers, transfer_requests, relay_sessions,
                        now, cleanup, upload>>

----------------------------------------------------------------------------
(* Peer liveness: the clock, the peer registry and the cleanup thread.      *)
(* One user and one channel; every call names a registered peer.           *)
NextLiveness ==
    \/ Tick
    \/ /\ Len(connected_peers) < LivenessPeers
       /\ connect_peer([user_id |-> "u1"])
    \/ \E p \in DOMAIN connected_peers : heartbeat(p)
    \/ \E p \in DOMAIN connected_peers : register_socket("s1", p)
    \/ \E p \in DOMAIN connected_peers : disconnect_peer(p)
    \/ cleanup_inactive_peers

SpecLiveness == Init /\ [][NextLiveness]_vars

(* Signalling and relay: peers, their channels, signals and chunks. *)
NextRelay ==
    \/ /\ Len(connected_peers) < RelayPeers
       /\ connect_peer([user_id |-> "u1"])
    \/ \E p \in DOMAIN connected_peers : register_socket("s1", p)
    \/ \E p \in DOMAIN connected_peers : disconnect_peer(p)
    \/ \E p \in DOMAIN connected_peers : heartbeat(p)
    \/ \E s \in Ids(connected_peers), t \in Ids(connected_peers), signal \in Signals :
            /\ Reachable(t) \/ Len(relay_sessions) < MaxSessions
            /\ peer_signal(s, t, signal)
    \/ \E data \in ChunkData(Ids(relay_sessions)) : relay_chunk(data)

SpecRelay == Init /\ [][NextRelay]_vars

(* Transfer workflow: requests, approvals, status updates, the fallback    *)
(* upload and cancellation.                                                *)
NextTransfers(names) ==
    \/ \E data \in RequestData :
            /\ Len(transfer_requests) < MaxRequests
            /\ request_file_transfer(data)
    \/ \E r \in Ids(transfer_requests) :
            /\ Known(transfer_requests, r) => Len(active_transfers) < MaxTransfers
            /\ approve_transfer(r)
    \/ upload_file(names)
    \/ \E t \in Ids(active_transfers), data \in StatusData : update_transfer_status(t, data)
    \/ \E t \in Ids(active_transfers) : cancel_transfer(t)

SpecTransfers == Init /\ [][NextTransfers(Uploads)]_vars

(* The same workflow with uploads under two different names. *)
SpecStaging == Init /\ [][NextTransfers(MoreUploads)]_vars

(* Channels: peers of one user attach, replace and lose channels while     *)
(* signals, chunks and transfer requests are addressed to them.  A peer    *)
(* attaches channel s2 only after it has attached s1, so that a peer seen  *)
(* on s2 has replaced its channel.                                         *)
NextChannels ==
    \/ /\ Len(connected_peers) < ChannelPeers
       /\ connect_peer([user_id |-> "u2"])
    \/ \E p \in Ids(connected_peers) : register_socket("s1", p)
    \/ \E p \in DOMAIN connected_peers :
            /\ Has(connected_peers[p], "socket_id")
            /\ register_socket("s2", p)
    \/ \E p \in Ids(connected_peers) : disconnect_peer(p)
    \/ \E s \in DOMAIN connected_peers, t \in DOMAIN connected_peers, signal \in Signals :
            /\ Reachable(t) \/ Len(relay_sessions) < ChannelSessions
            /\ peer_signal(s, t, signal)
    \/ \E data \in ChunkData(DOMAIN relay_sessions) :
            /\ Has(data, "total") /\ data.total = 2
            /\ relay_chunk(data)
    \/ /\ Len(transfer_requests) < ChannelRequests
       /\ request_file_transfer([sender_id |-> "u1", receiver_id |-> "u2",
                                 filename |-> "f.txt"])

SpecChannels == Init /\ [][NextChannels]_vars

(* Channel loss: peers attach and replace channels, channels are lost,     *)
(* peers disconnect and come back with a heartbeat.                        *)
NextChannelLoss ==
    \/ /\ Len(connected_peers) < LossPeers
       /\ connect_peer([user_id |-> "u1"])
    \/ \E p \in DOMAIN connected_peers : register_socket("s1", p)
    \/ \E p \in DOMAIN connected_peers :
            /\ Has(connected_peers[p], "socket_id")
            /\ register_socket("s2", p)
    \/ \E sid \in Sids : disconnect(sid)
    \/ \E p \in DOMAIN connected_peers : disconnect_peer(p)
    \/ \E p \in DOMAIN connected_peers : heartbeat(p)

SpecChannelLoss == Init /\ [][NextChannelLoss]_vars

(* Approvals: requests approved more than once, and the transfers that     *)
(* come of them uploaded to, completed and cancelled.                      *)
NextApprovals ==
    \/ /\ Len(transfer_requests) < ApprovalRequests
       /\ request_file_transfer([sender_id |-> "u1", receiver_id |-> "u2",
                                 filename |-> "f.txt"])
    \/ \E r \in Ids(transfer_requests) :
            /\ Known(transfer_requests, r) => Len(active_transfers) < ApprovalTransfers
            /\ approve_transfer(r)
    \/ \E t \in DOMAIN active_transfers :
            update_transfer_status(t, [status |-> "completed", progress |-> 100])
    \/ upload_file({"a.bin"})
    \/ \E t \in DOMAIN active_transfers : cancel_transfer(t)

SpecApprovals == Init /\ [][NextApprovals]_vars

(* Input validation: calls with and without their required fields. *)
NextInputs ==
    \/ \E data \in ConnectData :
            /\ Has(data, "user_id") => Len(connected_peers) < InputPeers
            /\ connect_peer(data)
    \/ \E data \in RequestData :
            /\ Has(data, "sender_id") /\ Has(data, "receiver_id") /\ Has(data, "filename")
                    => Len(transfer_requests) < MaxRequests
            /\ request_file_transfer(data)
    \/ \E r \in DOMAIN transfer_requests :
            /\ Len(active_transfers) < MaxTransfers
            /\ approve_transfer(r)
    \/ \E t \in Ids(active_transfers), data \in StatusData : update_transfer_status(t, data)

SpecInputs == Init /\ [][NextInputs]_vars

(* Notification of a request: the receiver's devices connect, attach a     *)
(* channel, disconnect and come back, and requests are made to them.       *)
NextNotify ==
    \/ /\ Len(connected_peers) < NotifyPeers
       /\ connect_peer([user_id |-> "u2"])
    \/ \E p \in DOMAIN connected_peers : register_socket("s1", p)
    \/ \E p \in DOMAIN connected_peers : disconnect_peer(p)
    \/ \E p \in DOMAIN connected_peers : heartbeat(p)
    \/ /\ Len(transfer_requests) < MaxRequests
       /\ request_file_transfer([sender_id |-> "u1", receiver_id |-> "u2",
                                 filename |-> "f.txt"])

SpecNotify == Init /\ [][NextNotify]_vars

(* Lineage: requests that differ in every field, and the transfers that    *)
(* come of them updated, uploaded to and cancelled.                        *)
LineageData ==
    { [sender_id |-> "u1", receiver_id |-> "u2", filename |-> "f.txt"],
      [sender_id |-> "u2", receiver_id |-> "u1", filename |-> "g.txt"] }

NextLineage ==
    \/ \E data \in LineageData :
            /\ Len(transfer_requests) < LineageRequests
            /\ request_file_transfer(data)
    \/ \E r \in DOMAIN transfer_requests :
            /\ Len(active_transfers) < LineageTransfers
            /\ approve_transfer(r)
    \/ \E t \in DOMAIN active_transfers, data \in StatusData :
            /\ Has(data, "status") /\ Has(data, "progress")
            /\ data.status \in {"transferring", "completed"}
            /\ update_transfer_status(t, data)
    \/ upload_file({"a.bin"})
    \/ \E t \in DOMAIN active_transfers : cancel_transfer(t)

SpecLineage == Init /\ [][NextLineage]_vars

----------------------------------------------------------------------------
(* Properties *)

Terminal(t) == t.status \in {"completed", "cancelled"}

(* The files in fallback storage that were staged for a transfer. *)
Staged(transfer_id) == {f \in files : f[1] = transfer_id}

(* Status data that carries both required fields. *)
FullStatusData == {d \in StatusData : Has(d, "status") /\ Has(d, "progress")}

(* C1: update_status or cancel on a transfer that is already completed or  *)
(* cancelled is rejected and leaves every field of the transfer as it was. *)
C1_TerminalTransferRejects ==
    [][\A t \in DOMAIN active_transfers :
         /\ Terminal(active_transfers[t])
         /\ \/ cancel_transfer(t)
            \/ \E data \in FullStatusData : update_transfer_status(t, data)
         => /\ active_transfers'[t] = active_transfers[t]
            /\ response'.code >= 400]_vars

(* C2: a signal to a target that is unknown or offline, whatever channel   *)
(* it still holds, is not forwarded: exactly one new session is opened in  *)
(* status initiated and the caller is told that relay was initiated.       *)
C2_UnavailableTargetRelays ==
    [][\A s \in Ids(connected_peers), t \in Ids(connected_peers), signal \in Signals :
         /\ peer_signal(s, t, signal)
         /\ ~Known(connected_peers, t) \/ connected_peers[t].status = "offline"
         => /\ \A e \in emitted' : e.event # "peer_signal"
            /\ Len(relay_sessions') = Len(relay_sessions) + 1
            /\ relay_sessions'[Len(relay_sessions')].status = "initiated"
            /\ response'.status = "relay"]_vars

(* C3: when a scan pass of the cleanup thread completes, no peer of the    *)
(* pass is online with a last_seen that was older than the timeout when    *)
(* the pass began: such a peer was demoted, unless it was refreshed during *)
(* the pass.                                                               *)
C3_ExpiredPeerDemotedByPass ==
    [][cleanup.pc # "sleep" /\ cleanup'.pc = "sleep"
         => \A p \in 1..cleanup.n :
                connected_peers'[p].status = "online"
                    => cleanup.now - connected_peers'[p].last_seen <= Timeout]_vars

(* A pass has completed and left a peer demoted that was never             *)
(* disconnected and is silent for longer than the timeout.                 *)
C3_Witness ==
    /\ cleanup.pc = "sleep"
    /\ \E p \in DOMAIN connected_peers :
          /\ connected_peers[p].status = "offline"
          /\ ~Has(connected_peers[p], "disconnected_at")
          /\ now - connected_peers[p].last_seen > Timeout

(* C4: at the moment the cleanup thread writes status = offline for a      *)
(* peer, that peer's last_seen is older than the timeout, whatever         *)
(* heartbeats ran since the thread read it.                                *)
C4_NoDemotionBeforeTimeout ==
    [][cleanup_write => now - connected_peers[cleanup.i].last_seen > Timeout]_vars

(* C5: cancelling a server-relay transfer that has a staged file leaves no *)
(* staged file of that transfer in fallback storage, and the transfer      *)
(* cancelled.                                                              *)
C5_CancelPurgesStagedFile ==
    [][\A t \in DOMAIN active_transfers :
         /\ cancel_transfer(t)
         /\ active_transfers[t].transfer_mode = "server_relay"
         /\ Staged(t) # {}
         => /\ {f \in files' : f[1] = t} = {}
            /\ active_transfers'[t].status = "cancelled"]_vars

(* C6: approve with a request_id that is not in the request registry       *)
(* answers 404 and changes no registry and no stored file.                 *)
C6_ApproveUnknownNotFound ==
    [][\A r \in Ids(transfer_requests) :
         approve_transfer(r) /\ ~Known(transfer_requests, r)
         => /\ response'.code = 404
            /\ UNCHANGED <<registries, files>>]_vars

(* An approve of an unknown request was answered while a request and a     *)
(* transfer exist.                                                         *)
C6_Witness ==
    /\ response = [op |-> "approve_transfer", code |-> 404]
    /\ Len(transfer_requests) > 0
    /\ Len(active_transfers) > 0

(* C7: no step of the fallback upload changes a transfer that is already   *)
(* completed or cancelled, or stages a file for it.                        *)
C7_UploadLeavesTerminalTransfer ==
    [][\A t \in DOMAIN active_transfers :
         /\ Terminal(active_transfers[t])
         /\ \/ \E file \in MoreUploads \cup Uploads : upload_begin(t, file)
            \/ upload_save /\ upload.transfer_id = t
         => /\ active_transfers'[t] = active_transfers[t]
            /\ {f \in files' : f[1] = t} = Staged(t)]_vars

(* C8: every transfer's status is one of the four statuses and its         *)
(* progress is within 0..100.                                              *)
C8_StatusAndProgressInRange ==
    \A t \in DOMAIN active_transfers :
        /\ active_transfers[t].status \in {"ready", "transferring", "completed", "cancelled"}
        /\ active_transfers[t].progress \in 0..100

(* C9: a transfer's status changes only from ready to transferring, from   *)
(* transferring to completed, or to cancelled.                             *)
C9_StatusFollowsStateMachine ==
    [][\A t \in DOMAIN active_transfers :
         active_transfers'[t].status # active_transfers[t].status
         => \/ /\ active_transfers[t].status = "ready"
               /\ active_transfers'[t].status = "transferring"
            \/ /\ active_transfers[t].status = "transferring"
               /\ active_transfers'[t].status = "completed"
            \/ /\ active_transfers[t].status \in {"ready", "transferring"}
               /\ active_transfers'[t].status = "cancelled"]_vars

(* The chunk data that names its last chunk: index = total - 1. *)
FinalChunks == {d \in ChunkData(DOMAIN relay_sessions) : Has(d, "total") /\ d.index = d.total - 1}

(* C10 as stated: a final chunk for any existing session leaves the        *)
(* session completed.                                                      *)
C10_FinalChunkCompletesAnySession ==
    [][\A data \in FinalChunks :
         relay_chunk(data) => relay_sessions'[data.session_id].status = "completed"]_vars

(* C10: a final chunk for an existing session whose receiver peer is       *)
(* online with an attached channel leaves the session completed.           *)
C10_FinalChunkCompletesReachableSession ==
    [][\A data \in FinalChunks :
         /\ relay_chunk(data)
         /\ Reachable(relay_sessions[data.session_id].receiver_id)
         /\ connected_peers[relay_sessions[data.session_id].receiver_id].status = "online"
         => relay_sessions'[data.session_id].status = "completed"]_vars

(* A final chunk was forwarded to an online receiver and completed its     *)
(* session.                                                                *)
C10_Witness ==
    /\ response = [op |-> "relay_chunk", status |-> "success"]
    /\ \E e \in emitted :
          /\ e.event = "relay_chunk"
          /\ e.index = e.total - 1
          /\ relay_sessions[e.session_id].status = "completed"
          /\ connected_peers[relay_sessions[e.session_id].receiver_id].status = "online"

(* C11: a chunk for a session_id that is not in the session registry is   *)
(* answered with an error, is emitted to no channel, and changes no        *)
(* session and no other registry, whatever index and total it carries.     *)
C11_UnknownSessionNotFound ==
    [][\A data \in ChunkData(Ids(relay_sessions)) :
         relay_chunk(data) /\ ~Known(relay_sessions, data.session_id)
         => /\ response'.status = "error"
            /\ emitted' = {}
            /\ UNCHANGED <<registries, files>>]_vars

(* A chunk for an unknown session was refused after a session was          *)
(* completed.                                                              *)
C11_Witness ==
    /\ response = [op |-> "relay_chunk", status |-> "error"]
    /\ emitted = {}
    /\ \E s \in DOMAIN relay_sessions : relay_sessions[s].status = "completed"

(* C12: a well-formed chunk for an existing session whose receiver is      *)
(* unknown, offline or without a channel is answered queued, is not        *)
(* emitted, and leaves the session as it was, also when it is the last     *)
(* chunk.                                                                  *)
C12_UnreachableReceiverQueues ==
    [][\A data \in ChunkData(DOMAIN relay_sessions) :
         LET receiver_id == relay_sessions[data.session_id].receiver_id IN
         /\ relay_chunk(data)
         /\ Has(data, "total")
         /\ ~ /\ Known(connected_peers, receiver_id)
              /\ connected_peers[receiver_id].status = "online"
              /\ Has(connected_peers[receiver_id], "socket_id")
         => /\ response'.status = "queued"
            /\ \A e \in emitted' : e.event # "relay_chunk"
            /\ relay_sessions' = relay_sessions]_vars

(* C14: after disconnect_peer on a known peer the peer is offline, has     *)
(* disconnected_at set and holds no channel reference; on an unknown peer  *)
(* the call answers 404 and changes nothing.                               *)
C14_DisconnectClearsChannel ==
    [][\A p \in Ids(connected_peers) :
         disconnect_peer(p)
         => IF Known(connected_peers, p)
            THEN /\ connected_peers'[p].status = "offline"
                 /\ Has(connected_peers'[p], "disconnected_at")
                 /\ ~Has(connected_peers'[p], "socket_id")
            ELSE /\ response'.code = 404
                 /\ UNCHANGED <<registries, files>>]_vars

(* The channel references held by the peers of a set. *)
ChannelsOf(peers) ==
    {connected_peers[p].socket_id : p \in {q \in peers : Has(connected_peers[q], "socket_id")}}

(* C13: register_socket on a known peer leaves that peer with the new      *)
(* channel as its only channel reference and on an unknown peer answers an *)
(* error and changes no peer; every signal, chunk or transfer request      *)
(* addressed to a peer is emitted to the channel the peer holds at that    *)
(* moment, that is the one attached last, and to no other.                 *)
C13_LastChannelOnly ==
    [][/\ \A sid \in Sids, p \in Ids(connected_peers) :
            register_socket(sid, p)
            => IF Known(connected_peers, p)
               THEN /\ connected_peers'[p].socket_id = sid
                    /\ \A q \in DOMAIN connected_peers \ {p} :
                            connected_peers'[q] = connected_peers[q]
               ELSE /\ response'.status = "error"
                    /\ connected_peers' = connected_peers
       /\ \A s \in DOMAIN connected_peers, t \in DOMAIN connected_peers, signal \in Signals :
            peer_signal(s, t, signal)
            => \A e \in emitted' :
                    e.event = "peer_signal" => {e.room} = ChannelsOf({t})
       /\ \A data \in ChunkData(DOMAIN relay_sessions) :
            relay_chunk(data)
            => \A e \in emitted' :
                    {e.room} = ChannelsOf({relay_sessions[data.session_id].receiver_id})
       /\ \A e \in emitted' :
            e.event = "transfer_request" => e.room \in ChannelsOf(DOMAIN connected_peers)]_vars

(* A signal reached a peer on its second channel, the one that replaced    *)
(* its first.                                                              *)
C13_Witness ==
    /\ response = [op |-> "peer_signal", status |-> "success"]
    /\ \E e \in emitted : e.event = "peer_signal" /\ e.room = "s2"
    /\ ChannelsOf(DOMAIN connected_peers) = {"s2"}

(* C15: when channel sid is lost, every peer whose channel reference is    *)
(* sid becomes offline and a peer_disconnected notification names it;      *)
(* every other peer keeps all its fields.                                  *)
C15_ChannelLossDemotesHolders ==
    [][\A sid \in Sids :
         disconnect(sid)
         => \A p \in DOMAIN connected_peers :
              IF Has(connected_peers[p], "socket_id") /\ connected_peers[p].socket_id = sid
              THEN /\ connected_peers'[p].status = "offline"
                   /\ \E e \in emitted' : e.event = "peer_disconnected" /\ e.peer_id = p
              ELSE connected_peers'[p] = connected_peers[p]]_vars

(* Channel s1 was lost: its holder was demoted and announced, while an     *)
(* online peer that had replaced s1 by s2 was left alone.                  *)
C15_Witness ==
    /\ response = [op |-> "disconnect"]
    /\ \E p \in DOMAIN connected_peers, q \in DOMAIN connected_peers :
          /\ \E e \in emitted : e.peer_id = p
          /\ connected_peers[p].status = "offline"
          /\ connected_peers[p].socket_id = "s1"
          /\ \A e \in emitted : e.peer_id # q
          /\ connected_peers[q].status = "online"
          /\ ChannelsOf({q}) = {"s2"}

(* C16: a step of the cleanup thread changes nothing but the status of an  *)
(* online peer that is silent for longer than the timeout, which it sets   *)
(* to offline: every other field of that peer, every peer within the       *)
(* timeout, every offline peer, the number of peers and the three other    *)
(* registries stay as they were.                                           *)
C16_ScanChangesOnlyExpiredStatus ==
    [][cleanup_inactive_peers
         => /\ UNCHANGED <<transfer_requests, active_transfers, relay_sessions>>
            /\ Len(connected_peers') = Len(connected_peers)
            /\ \A p \in DOMAIN connected_peers :
                  \/ connected_peers'[p] = connected_peers[p]
                  \/ /\ connected_peers[p].status = "online"
                     /\ now - connected_peers[p].last_seen > Timeout
                     /\ connected_peers'[p] =
                            [connected_peers[p] EXCEPT !.status = "offline"]]_vars

(* C17: a request is created pending; the only change ever made to a       *)
(* request is its status going from pending to approved, by an approve of  *)
(* that request; no step, a further approve of it included, changes any    *)
(* field of an approved request, and no request is removed.                *)
C17_RequestMutatedOnce ==
    [][/\ Len(transfer_requests') >= Len(transfer_requests)
       /\ \A r \in DOMAIN transfer_requests' \ DOMAIN transfer_requests :
            transfer_requests'[r].status = "pending"
       /\ \A r \in DOMAIN transfer_requests :
            \/ transfer_requests'[r] = transfer_requests[r]
            \/ /\ transfer_requests[r].status = "pending"
               /\ approve_transfer(r)
               /\ transfer_requests'[r] = [transfer_requests[r] EXCEPT !.status = "approved"]
       /\ \A r \in DOMAIN transfer_requests :
            approve_transfer(r) => transfer_requests'[r].status = "approved"]_vars

(* The same request was approved a second time, after the transfer of its  *)
(* first approval was completed, and is still approved.                    *)
C17_Witness ==
    /\ response.op = "approve_transfer" /\ response.code = 200
    /\ response.transfer_id = 2
    /\ active_transfers[1].request_id = active_transfers[2].request_id
    /\ active_transfers[1].status = "completed"
    /\ transfer_requests[active_transfers[2].request_id].status = "approved"

(* C18: connect without user_id, request_transfer without sender_id,       *)
(* receiver_id or filename, and update_transfer_status without status or   *)
(* progress are answered 400 and leave the four registries as they were.   *)
C18_InvalidInputChangesNothing ==
    [][/\ \A data \in ConnectData :
            connect_peer(data) /\ ~Has(data, "user_id")
            => response'.code = 400 /\ UNCHANGED registries
       /\ \A data \in RequestData :
            /\ request_file_transfer(data)
            /\ ~(Has(data, "sender_id") /\ Has(data, "receiver_id") /\ Has(data, "filename"))
            => response'.code = 400 /\ UNCHANGED registries
       /\ \A t \in Ids(active_transfers), data \in StatusData :
            /\ update_transfer_status(t, data)
            /\ ~(Has(data, "status") /\ Has(data, "progress"))
            => response'.code = 400 /\ UNCHANGED registries]_vars

(* A call without its required fields was refused while a peer, a request  *)
(* and a transfer exist.                                                   *)
C18_Witness ==
    /\ response \in {[op |-> o, code |-> 400] :
            o \in {"connect_peer", "request_file_transfer", "update_transfer_status"}}
    /\ Len(connected_peers) > 0
    /\ Len(transfer_requests) > 0
    /\ Len(active_transfers) > 0

(* C19: the transfer created by approve has status ready; an update with  *)
(* status completed and progress 100 leaves the transfer completed with    *)
(* completed_at set; and after every step every completed transfer has     *)
(* completed_at set, whether an update or the fallback upload completed    *)
(* it.                                                                     *)
C19_CompletedIsStamped ==
    [][/\ \A r \in DOMAIN transfer_requests :
            approve_transfer(r)
            => active_transfers'[Len(active_transfers')].status = "ready"
       /\ \A t \in DOMAIN active_transfers :
            update_transfer_status(t, [status |-> "completed", progress |-> 100])
            => /\ active_transfers'[t].status = "completed"
               /\ Has(active_transfers'[t], "completed_at")
       /\ \A t \in DOMAIN active_transfers' :
            active_transfers'[t].status = "completed"
            => Has(active_transfers'[t], "completed_at")]_vars

(* A transfer that was never uploaded to was completed by an update and    *)
(* carries completed_at.                                                   *)
C19_Witness ==
    /\ response = [op |-> "update_transfer_status", code |-> 200]
    /\ \E t \in DOMAIN active_transfers :
          /\ active_transfers[t].status = "completed"
          /\ active_transfers[t].progress = 100
          /\ active_transfers[t].transfer_mode = "p2p"
          /\ Has(active_transfers[t], "completed_at")

(* C20: a request reports receiver_online exactly when some peer of the    *)
(* receiver is online, and whenever an online peer of the receiver holds a *)
(* channel, a transfer_request carrying the new request_id is emitted to   *)
(* a channel of an online peer of the receiver.                            *)
C20_ReceiverWithChannelIsNotified ==
    [][\A data \in RequestData :
         /\ request_file_transfer(data)
         /\ Has(data, "sender_id") /\ Has(data, "receiver_id") /\ Has(data, "filename")
         => /\ response'.receiver_online = (OnlinePeers({data.receiver_id}) # {})
            /\ WithSocket(OnlinePeers({data.receiver_id})) # {}
                => \E e \in emitted' :
                      /\ e.event = "transfer_request"
                      /\ e.request_id = response'.request_id
                      /\ \E p \in WithSocket(OnlinePeers({data.receiver_id})) :
                            e.room = connected_peers[p].socket_id]_vars

(* C21: every transfer's request_id names an existing request whose       *)
(* status is approved, and the transfer's sender, receiver and filename    *)
(* are those of that request.                                              *)
C21_TransferMatchesApprovedRequest ==
    \A t \in DOMAIN active_transfers :
        LET r == active_transfers[t].request_id IN
        /\ Known(transfer_requests, r)
        /\ transfer_requests[r].status = "approved"
        /\ active_transfers[t].sender_id = transfer_requests[r].sender_id
        /\ active_transfers[t].receiver_id = transfer_requests[r].receiver_id
        /\ active_transfers[t].filename = transfer_requests[r].filename

(* A transfer of the first of two different requests was uploaded to and   *)
(* completed, while the second request is still pending.                   *)
C21_Witness ==
    /\ Len(transfer_requests) = 2
    /\ transfer_requests[1].filename # transfer_requests[2].filename
    /\ transfer_requests[2].status = "pending"
    /\ \E t \in DOMAIN active_transfers :
          /\ active_transfers[t].request_id = 1
          /\ active_transfers[t].status = "completed"
          /\ Has(active_transfers[t], "file_path")

(* C22: approve of a request that is already approved answers 200 and      *)
(* creates one more transfer, under an id no transfer had, with that       *)
(* request_id, status ready and progress 0; every transfer that existed    *)
(* keeps all its fields.                                                   *)
C22_ReapproveAddsTransfer ==
    [][\A r \in DOMAIN transfer_requests :
         approve_transfer(r) /\ transfer_requests[r].status = "approved"
         => /\ response'.code = 200
            /\ response'.transfer_id \notin DOMAIN active_transfers
            /\ DOMAIN active_transfers' = DOMAIN active_transfers \cup {response'.transfer_id}
            /\ active_transfers'[response'.transfer_id].request_id = r
            /\ active_transfers'[response'.transfer_id].status = "ready"
            /\ active_transfers'[response'.transfer_id].progress = 0
            /\ \A t \in DOMAIN active_transfers :
                    active_transfers'[t] = active_transfers[t]]_vars

(* A request whose first transfer was cancelled was approved again: the    *)
(* second transfer is ready and the first is still cancelled.              *)
C22_Witness ==
    /\ response.op = "approve_transfer" /\ response.code = 200
    /\ response.transfer_id = 2
    /\ active_transfers[1].request_id = active_transfers[2].request_id
    /\ active_transfers[1].status = "cancelled"
    /\ active_transfers[2].status = "ready"
    /\ active_transfers[2].progress = 0

====
